---- MODULE Spec2Model ----
(***************************************************************************)
(* SpeakUp: the speech queue (QueueManager), the message ledger            *)
(* (HistoryStore) and the streaming playback sink (StreamingPlayer).       *)
(*                                                                         *)
(* Threads: one caller thread (service.py serves requests on a plain       *)
(* HTTPServer, one handler at a time, and owns start()/stop()), the        *)
(* consumer threads QueueManager.start() creates, and the playback threads *)
(* StreamingPlayer.start() creates.  Each action is one atomic step of one *)
(* thread: a statement outside a lock, or a whole `with lock:` block.      *)
(***************************************************************************)
EXTENDS Integers, Sequences, FiniteSets, TLC

\* ---------------------------------------------------------------- bounds
\* submissions, consumer threads ever started, items in the FIFO, playback
\* threads left behind by a timed-out join, chunks the engine makes of a text
MaxMsgs == 2
MaxWorkers == 2
MaxQueue == 3
MaxOrphans == 1
ChunksPerRequest == 1
\* rows ever inserted, when the ledger is exercised on its own
MaxRows == 3
\* characters in a submitted text
MaxText == 2
\* chunks fed in one playback session, samples in a chunk, items waiting in
\* the player's queue
MaxFeeds == 2
MaxChunk == 2
MaxBacklog == 3
\* seconds the clock of the ledger advances
MaxClock == 2
\* service processes launched
MaxProcs == 3
\* threads that call AudioPlayer.play, and afplay processes launched
MaxCallers == 2
MaxAfplay == 3

\* None, as a queue item and as the current-request slot.
None == 0
\* The end-of-stream sentinel of the player's chunk queue.
NoneChunk == <<0, 0>>

MsgIds == 1..MaxMsgs
Procs == 1..MaxProcs
WorkerIds == 1..MaxWorkers
Statuses == {"queued", "playing", "played", "skipped"}

VARIABLES
    \* HistoryStore: the messages table (id -> status) and sqlite_sequence
    messages, sqlite_seq,
    \* the ids of the rows whose played_at, and whose duration_ms, is not NULL
    played_at, duration_ms,
    \* QueueManager
    queue, current_request, running, worker_thread,
    \* consumer threads: position, the dequeued request, chunks generated
    wpc, wreq, wfed,
    \* StreamingPlayer
    p_playing, p_interrupted, p_stream, p_queue, p_thread, p_lock,
    \* playback threads stop() gave up joining, still in _playback_loop
    orphans,
    \* the caller thread: position and the locals of the call in progress
    cpc, request, cleared,
    \* what the open output stream was given, in order
    device,
    \* Observations; the program reads none of them.
    \*   playOrder, enqueued: the ids in mark_playing order and in enqueue
    \*     order, kept while no stop() and no stop_and_clear() was called
    \*   h_stopped: a stop() or a stop_and_clear() was called
    \*   h_ids: the ids add_message returned, in order
    \*   markedSkipped: the ids mark_skipped was called for
    \*   h_cur: the request the last stop_and_clear marked skipped as the
    \*     current request, while a consumer is still working on it
    \*   h_cancelled, h_trans, h_idle, h_snap: of the stop_and_clear in
    \*     progress: the requests that sat in the FIFO when it was called, the
    \*     rows it changed to skipped, whether nothing was queued or playing
    \*     when it was called, and the ledger, FIFO and slot at that moment
    \*   h_c5: the scenario "one request, then one stop_and_clear"
    playOrder, enqueued, h_stopped, h_ids, markedSkipped, h_cur,
    h_cancelled, h_trans, h_idle, h_snap, h_c5,
    \*   h_repeat: the stop() in progress was called on a stopped manager
    h_repeat,
    \* the HTTP handler: the body of the POST /api/speak being handled and
    \* the status of the response sent for the last one
    body, response,
    \* SpeakRequest.speed of each request
    speed,
    \* StreamingPlayer: _total_samples and _sample_rate
    p_total, p_rate,
    \* the chunk the playback thread is writing in stream.write, and the
    \* chunks the threads stop() gave up joining are writing
    p_hand, o_hand,
    \* a thread that calls the player directly: position, the size of the
    \* chunk it is feeding, what feed and finish last returned
    kpc, k_size, k_ret, k_ms,
    \* AudioDeviceMonitor: _running, and the parity of the number of times
    \* the audio library was terminated and initialized again
    m_running, sd_epoch,
    \* Observations of the player's session:
    \*   h_fed: the chunks feed has enqueued since the last start()
    \*   h_clean: the session was started with no stop() in progress and no
    \*     stop() was called since, and no write to the device has failed
    \*   h_disc: the chunks the last stop() took off the queue unwritten
    \*   h_fail: a write of the session raised PortAudioError
    h_fed, h_clean, h_disc, h_fail,
    \* HistoryStore: created_at of each row, in seconds, and the clock that
    \* CURRENT_TIMESTAMP reads
    created_at, now,
    \* a reader of the ledger: its position, the locals of get_status
    \* (queued_from_db, playing) and what it returned as queue_size, and the
    \* argument and the result of the last get_recent
    qpc, queued_from_db, playing, queue_size, limit, recent,
    \* service processes (the pid of process p is p): the position of each in
    \* run_service, the content of PID_FILE (0: no file), the process bound to
    \* the port (0: free), the processes whose queue worker is running
    lpc, pid_file, port, qm_on,
    \* Observations: the processes that have called queue_manager.start(),
    \* and those that have called write_pid_file()
    h_started, h_wrote,
    \* a client (MCP server tool or CLI command): whether the service answers
    \* on its port, the position of the client in its operation, the
    \* operation and its arguments, and what it reported ("none" while the
    \* operation runs)
    svc_up, xpc, x_op, x_text, x_interrupt, x_out,
    \* the duration_ms key of what speak returned: {} without the key
    x_ms,
    \* Observations of the operation in progress: it has sent a request, and
    \* a request of it was answered
    h_tried, h_reached,
    \* the consumer composing what to say: its position, and the
    \* SpeakRequest, full_text and params of _play_request
    mpc, rq, full_text, params,
    \* AudioPlayer: _playing, _process (0: None, else the afplay process),
    \* the afplay processes that are running and the number launched; each
    \* calling thread's position in play(), its interrupt argument and the
    \* process it waits for
    a_playing, a_process, a_running, a_count, apc, a_interrupt, a_wait,
    \* Observation: play was called with interrupt=False, or while another
    \* call had begun and its afplay process was not running yet
    h_plain

colVars == <<played_at, duration_ms>>

ledgerVars == <<messages, sqlite_seq, colVars>>
qmVars == <<queue, current_request, running, worker_thread>>
wkVars == <<wpc, wreq, wfed>>
plVars == <<p_playing, p_interrupted, p_stream, p_queue, p_thread, p_lock, orphans>>
cliVars == <<cpc, request, cleared>>
obsOrder == <<playOrder, enqueued, h_stopped>>
obsSets == <<markedSkipped, h_cur>>
obsCall == <<h_cancelled, h_trans, h_idle, h_snap>>
obsVars == <<obsOrder, h_ids, obsSets, obsCall, h_c5>>
svcVars == <<body, speed>>
sndVars == <<p_total, p_rate, p_hand, o_hand, kpc, k_size, k_ret, k_ms,
             m_running, sd_epoch, h_fed, h_clean, h_disc, h_fail>>
qryVars == <<created_at, now, qpc, queued_from_db, playing, queue_size, limit, recent>>
lnVars == <<lpc, pid_file, port, qm_on, h_started, h_wrote>>
clVars == <<svc_up, xpc, x_op, x_text, x_interrupt, x_out, x_ms, h_tried, h_reached>>
cmpVars == <<mpc, rq, full_text, params>>
audVars == <<a_playing, a_process, a_running, a_count, apc, a_interrupt, a_wait, h_plain>>
extVars == <<svcVars, sndVars, qryVars, lnVars, clVars, cmpVars, audVars>>
vars == <<ledgerVars, qmVars, wkVars, plVars, cliVars, device, obsVars,
          h_repeat, response, extVars>>

\* ---------------------------------------------------------------- helpers
Range(s) == {s[i] : i \in DOMAIN s}

IsPrefix(a, b) == Len(a) <= Len(b) /\ \A i \in 1..Len(a) : a[i] = b[i]

StrictlyIncreasing(s) == \A i, j \in DOMAIN s : i < j => s[i] < s[j]

SetMax(S) == IF S = {} THEN 0 ELSE CHOOSE x \in S : \A y \in S : y <= x

\* ---------------------------------------------------------------- ledger
\* INTEGER PRIMARY KEY without AUTOINCREMENT: one more than the largest rowid
\* in the table, so the id of a deleted last row is handed out again.
RowIdWithoutAutoincrement(m, seq) == SetMax(DOMAIN m) + 1

\* INTEGER PRIMARY KEY AUTOINCREMENT: one more than the largest rowid the
\* table ever held (sqlite_sequence), whatever has been deleted since.
NextRowId(m, seq) == SetMax(DOMAIN m \cup {seq}) + 1

\* INSERT ... VALUES (?, ?, ?, 'queued')
InsertQueued(m, id) == [i \in DOMAIN m \cup {id} |-> IF i = id THEN "queued" ELSE m[i]]

\* UPDATE messages SET status = s WHERE id = ?  (no row: nothing changes)
UpdateStatus(m, id, s) == IF id \in DOMAIN m THEN [m EXCEPT ![id] = s] ELSE m

mark_playing(m, id) == UpdateStatus(m, id, "playing")

mark_played(m, id) == UpdateStatus(m, id, "played")

mark_skipped(m, id) == UpdateStatus(m, id, "skipped")

\* a column that no statement writes
KeepColumn(col, m, id) == col

\* UPDATE messages SET status = 'played', played_at = ?, duration_ms = ?
\* WHERE id = ?: the column of row id is no longer NULL
SetColumn(col, m, id) == IF id \in DOMAIN m THEN col \cup {id} ELSE col

\* UPDATE messages SET status = 'skipped' WHERE status = 'queued'
mark_queued_as_skipped(m) == [i \in DOMAIN m |-> IF m[i] = "queued" THEN "skipped" ELSE m[i]]

\* DELETE FROM messages WHERE created_at < cutoff.  created_at never decreases
\* with the id, so the rows older than a cutoff are the rows below some id.
cleanup_old(m, k) == [i \in {j \in DOMAIN m : j >= k} |-> m[i]]

\* ------------------------------------------------- request bodies
\* A text is a string of blanks and letters.
Chars == {" ", "a"}

Texts == UNION {[1..n -> Chars] : n \in 0..MaxText}

\* The speed field: 0, 1.0 (what a body without the field gets), not a number.
Speeds == {"0", "1", "x"}

\* What POST /api/speak can be sent: bytes that are no JSON text, a JSON text
\* that is no object (an array), an object with its text and speed fields.
\* An object without "text" is an object with text "" (data.get("text", "")).
Bodies ==
    {[json |-> k, text |-> <<>>, speed |-> "1"] : k \in {"invalid", "array"}}
        \cup {[json |-> "object", text |-> t, speed |-> v] : t \in Texts, v \in Speeds}

\* no request is being handled
NoBody == [json |-> "none", text |-> <<>>, speed |-> "1"]

\* StreamingPlayer.__init__: self._sample_rate = 22050
DefaultSampleRate == 22050

\* no request is being composed, and nothing was computed yet
NoRequest == [project |-> <<>>, text |-> <<>>, announce |-> "prefix", tone |-> "neutral",
              speed |-> <<1, 1>>]

NoParams == [noise_scale |-> 0, noise_scale_w |-> 0, length_scale |-> <<0, 1>>]

\* ---------------------------------------------------------------- Init
Init ==
    /\ messages = <<>>
    /\ sqlite_seq = 0
    /\ played_at = {}
    /\ duration_ms = {}
    /\ queue = <<>>
    /\ current_request = None
    /\ running = FALSE
    /\ worker_thread = None
    /\ wpc = [w \in WorkerIds |-> "unborn"]
    /\ wreq = [w \in WorkerIds |-> None]
    /\ wfed = [w \in WorkerIds |-> 0]
    /\ p_playing = FALSE
    /\ p_interrupted = FALSE
    /\ p_stream = FALSE
    /\ p_queue = <<>>
    /\ p_thread = "none"
    /\ p_lock = None
    /\ orphans = 0
    /\ cpc = "idle"
    /\ request = None
    /\ cleared = 0
    /\ device = <<>>
    /\ playOrder = <<>>
    /\ enqueued = <<>>
    /\ h_stopped = FALSE
    /\ h_ids = <<>>
    /\ markedSkipped = {}
    /\ h_cancelled = {}
    /\ h_cur = None
    /\ h_trans = 0
    /\ h_idle = FALSE
    /\ h_snap = <<>>
    /\ h_c5 = "none"
    /\ h_repeat = FALSE
    /\ body = NoBody
    /\ response = "none"
    /\ speed = [i \in MsgIds |-> 1]
    /\ p_total = 0
    /\ p_rate = DefaultSampleRate
    /\ p_hand = NoneChunk
    /\ o_hand = {}
    /\ kpc = "idle"
    /\ k_size = 0
    /\ k_ret = "none"
    /\ k_ms = <<0, 1>>
    /\ m_running = FALSE
    /\ sd_epoch = 0
    /\ h_fed = <<>>
    /\ h_clean = FALSE
    /\ h_disc = {}
    /\ h_fail = FALSE
    /\ created_at = <<>>
    /\ now = 0
    /\ qpc = "idle"
    /\ queued_from_db = <<>>
    /\ playing = None
    /\ queue_size = 0
    /\ limit = 0
    /\ recent = <<>>
    /\ lpc = [p \in Procs |-> "off"]
    /\ pid_file = 0
    /\ port = 0
    /\ qm_on = {}
    /\ h_started = {}
    /\ h_wrote = {}
    /\ svc_up = FALSE
    /\ xpc = "idle"
    /\ x_op = "none"
    /\ x_text = <<>>
    /\ x_interrupt = FALSE
    /\ x_out = "none"
    /\ x_ms = {}
    /\ h_tried = FALSE
    /\ h_reached = FALSE
    /\ mpc = "idle"
    /\ rq = NoRequest
    /\ full_text = <<>>
    /\ params = NoParams
    /\ a_playing = FALSE
    /\ a_process = 0
    /\ a_running = {}
    /\ a_count = 0
    /\ apc = [t \in 1..MaxCallers |-> "idle"]
    /\ a_interrupt = [t \in 1..MaxCallers |-> TRUE]
    /\ a_wait = [t \in 1..MaxCallers |-> 0]
    /\ h_plain = FALSE

\* ------------------------------------------------- the caller thread
\* What queue.LifoQueue.put would do.
PutFront(q, r) == <<r>> \o q

\* queue.Queue.put: FIFO
Put(q, r) == Append(q, r)

\* a consumer thread inside _play_request
Busy(w) == wpc[w] \notin {"unborn", "check", "get", "dead"}

\* QueueManager.start(): with the lock, return if running, else create and
\* start a consumer thread.
Start ==
    /\ cpc = "idle"
    /\ ~running
    /\ \E w \in WorkerIds :
        /\ wpc[w] = "unborn"
        /\ \A v \in WorkerIds : v < w => wpc[v] # "unborn"
        /\ wpc' = [wpc EXCEPT ![w] = "check"]
        /\ worker_thread' = w
    /\ running' = TRUE
    /\ UNCHANGED <<extVars, response, h_repeat, ledgerVars, queue, current_request, wreq, wfed, plVars, cliVars,
                   device, obsVars>>

\* The scenario of one request and one stop_and_clear is over once anything
\* else is called.
Void(c) == IF c = "none" THEN "none" ELSE "void"

\* QueueManager.stop(): with the lock, _running = False
StopFlag ==
    /\ cpc = "idle"
    /\ Len(queue) < MaxQueue
    /\ running' = FALSE
    /\ cpc' = "stop_put"
    /\ h_stopped' = TRUE
    /\ playOrder' = <<>>
    /\ enqueued' = <<>>
    /\ h_c5' = "void"
    /\ h_repeat' = (~running /\ worker_thread # None)
    /\ UNCHANGED <<extVars, response, ledgerVars, queue, current_request, worker_thread, wkVars, plVars,
                   request, cleared, device, h_ids, obsSets, obsCall>>

\* QueueManager.stop(): self._queue.put(None)
StopPut ==
    /\ cpc = "stop_put"
    /\ queue' = Put(queue, None)
    /\ cpc' = "stop_join"
    /\ UNCHANGED <<extVars, response, h_repeat, ledgerVars, current_request, running, worker_thread, wkVars, plVars,
                   request, cleared, device, obsVars>>

\* QueueManager.stop(): self._worker_thread.join(timeout=2.0).  A consumer
\* outside _play_request sees the sentinel or _running within its 0.5 s poll;
\* the join times out on one that is inside _play_request.
StopJoin ==
    /\ cpc = "stop_join"
    /\ IF worker_thread = None
       THEN TRUE
       ELSE wpc[worker_thread] = "dead" \/ Busy(worker_thread)
    /\ cpc' = "idle"
    /\ h_repeat' = FALSE
    /\ UNCHANGED <<extVars, response, ledgerVars, qmVars, wkVars, plVars, request, cleared,
                   device, obsVars>>

\* _post_speak: message_id = self.history.add_message(project, text, tone)
SpeakAdd ==
    /\ cpc = "idle"
    /\ sqlite_seq < MaxMsgs
    /\ Len(queue) < MaxQueue
    /\ LET id == NextRowId(messages, sqlite_seq) IN
        /\ messages' = InsertQueued(messages, id)
        /\ sqlite_seq' = id
        /\ UNCHANGED colVars
        /\ request' = id
        /\ h_ids' = Append(h_ids, id)
    /\ cpc' = "speak_enqueue"
    /\ h_c5' = Void(h_c5)
    /\ UNCHANGED <<extVars, response, h_repeat, qmVars, wkVars, plVars, cleared, device, obsOrder, obsSets, obsCall>>

\* _post_speak: self.queue_manager.enqueue(request), then the response
SpeakEnqueue ==
    /\ cpc = "speak_enqueue"
    /\ queue' = Put(queue, request)
    /\ enqueued' = IF h_stopped THEN enqueued ELSE Append(enqueued, request)
    /\ request' = None
    /\ response' = "200"
    /\ cpc' = "idle"
    /\ UNCHANGED <<extVars, h_repeat, ledgerVars, current_request, running, worker_thread, wkVars, plVars,
                   cleared, device, playOrder, h_stopped, h_ids, obsSets, obsCall, h_c5>>

\* ------------------------------------------------- stop_and_clear
\* The requests sitting in the FIFO.
Requests(q) == Range(q) \ {None}

\* No request is queued and none is being played.
Quiet == Requests(queue) = {} /\ current_request = None /\ \A w \in WorkerIds : ~Busy(w)

\* One request was submitted to a running worker, it is not played yet, and
\* nothing was stopped before.
OneUnplayed ==
    /\ ~h_stopped
    /\ running
    /\ sqlite_seq = 1
    /\ DOMAIN messages = {1}
    /\ messages[1] # "played"

\* cleared += 1 for whatever get_nowait returned, the sentinel included.
CountAny(req) == 1

\* stop_and_clear's drain: `if req is not None: ... cleared += 1`
CountDrained(req) == IF req # None THEN 1 ELSE 0

\* 1 when mark_skipped(id) changes a row's status to 'skipped'.
Transitioned(m, id) == IF id \in DOMAIN m /\ m[id] # "skipped" THEN 1 ELSE 0

\* stop_and_clear: self._player.stop(), its first block:
\* with self._lock: self._interrupted = True
SacInterrupt ==
    /\ cpc = "idle"
    /\ p_lock = None
    /\ p_interrupted' = TRUE
    /\ cleared' = 0
    /\ cpc' = "sac_player_drain"
    /\ h_stopped' = TRUE
    /\ playOrder' = <<>>
    /\ enqueued' = <<>>
    /\ h_cancelled' = Requests(queue)
    /\ h_cur' = None
    /\ h_trans' = 0
    /\ h_idle' = Quiet
    /\ h_snap' = IF Quiet THEN <<messages, queue, current_request>> ELSE <<>>
    /\ h_c5' = IF h_c5 = "none" /\ OneUnplayed THEN "armed" ELSE "void"
    /\ UNCHANGED <<extVars, response, h_repeat, ledgerVars, qmVars, wkVars, p_playing, p_stream, p_queue, p_thread,
                   p_lock, orphans, request, device, h_ids, markedSkipped>>

\* StreamingPlayer.stop(): get_nowait until Empty, then self._queue.put(None)
SacPlayerDrain ==
    /\ cpc = "sac_player_drain"
    /\ p_queue' = <<NoneChunk>>
    /\ cpc' = "sac_player_cleanup"
    /\ UNCHANGED <<extVars, response, h_repeat, ledgerVars, qmVars, wkVars, p_playing, p_interrupted, p_stream,
                   p_thread, p_lock, orphans, request, cleared, device, obsVars>>

\* StreamingPlayer.stop(): self._playback_thread.join(timeout=0.5), then
\* with self._lock: self._cleanup().  The join returns when the thread has
\* exited, or times out on a thread that is still alive (blocked in
\* stream.write); _cleanup then drops the reference to it.
SacPlayerCleanup ==
    /\ cpc = "sac_player_cleanup"
    /\ p_lock = None
    /\ IF p_thread = "alive"
       THEN orphans < MaxOrphans /\ orphans' = orphans + 1
       ELSE UNCHANGED orphans
    /\ p_stream' = FALSE
    /\ p_playing' = FALSE
    /\ p_thread' = "none"
    /\ device' = <<>>
    /\ cpc' = "sac_current"
    /\ UNCHANGED <<extVars, response, h_repeat, ledgerVars, qmVars, wkVars, p_interrupted, p_queue, p_lock,
                   request, cleared, obsVars>>

\* Taking the branch whatever the slot holds.
SlotAny(slot) == TRUE

\* stop_and_clear: `if self._current_request:`
SlotHeld(slot) == slot # None

\* stop_and_clear: with self._lock: if self._current_request: mark_skipped,
\* self._current_request = None, cleared += 1
SacCurrent ==
    /\ cpc = "sac_current"
    /\ IF SlotHeld(current_request)
       THEN /\ messages' = mark_skipped(messages, current_request)
            /\ current_request' = None
            /\ cleared' = cleared + 1
            /\ markedSkipped' = markedSkipped \cup {current_request}
            /\ h_cur' = current_request
            /\ h_trans' = h_trans + Transitioned(messages, current_request)
       ELSE UNCHANGED <<messages, current_request, cleared, markedSkipped, h_cur, h_trans>>
    /\ cpc' = "sac_drain"
    /\ UNCHANGED <<extVars, response, h_repeat, sqlite_seq, colVars, queue, running, worker_thread, wkVars, plVars, request,
                   device, obsOrder, h_ids, h_cancelled, h_idle, h_snap, h_c5>>

\* stop_and_clear: one turn of the drain loop, req = self._queue.get_nowait()
SacDrain ==
    /\ cpc = "sac_drain"
    /\ queue # <<>>
    /\ LET req == Head(queue) IN
        /\ queue' = Tail(queue)
        /\ cleared' = cleared + CountDrained(req)
        /\ IF req # None
           THEN /\ messages' = mark_skipped(messages, req)
                /\ markedSkipped' = markedSkipped \cup {req}
                /\ h_trans' = h_trans + Transitioned(messages, req)
           ELSE UNCHANGED <<messages, markedSkipped, h_trans>>
    /\ UNCHANGED <<extVars, response, h_repeat, sqlite_seq, colVars, current_request, running, worker_thread, wkVars, plVars,
                   cpc, request, device, obsOrder, h_ids, h_cancelled, h_cur, h_idle,
                   h_snap, h_c5>>

\* stop_and_clear: queue.Empty ends the loop; return cleared
SacReturn ==
    /\ cpc = "sac_drain"
    /\ queue = <<>>
    /\ cpc' = "idle"
    /\ cleared' = 0
    /\ h_cancelled' = {}
    /\ h_trans' = 0
    /\ h_idle' = FALSE
    /\ h_snap' = <<>>
    /\ h_c5' = IF h_c5 = "armed" THEN (IF cleared = 1 THEN "one" ELSE "other") ELSE h_c5
    /\ UNCHANGED <<extVars, response, h_repeat, ledgerVars, qmVars, wkVars, plVars, request, device, obsOrder, h_ids,
                   markedSkipped, h_cur>>

\* ------------------------------------------------- the consumer thread
\* mark_played whatever the slot holds.
IgnoreSlot(slot, id) == TRUE

\* _play_request: if self._current_request and
\*     self._current_request.message_id == request.message_id
StillCurrent(slot, id) == slot # None /\ slot = id

\* _process_queue: while self._running
WCheck(w) ==
    /\ wpc[w] = "check"
    /\ wpc' = [wpc EXCEPT ![w] = IF running THEN "get" ELSE "dead"]
    /\ UNCHANGED <<extVars, response, h_repeat, ledgerVars, qmVars, wreq, wfed, plVars, cliVars, device, obsVars>>

\* _process_queue: request = self._queue.get(timeout=0.5); Empty: continue;
\* None: break; else _play_request(request)
WGet(w) ==
    /\ wpc[w] = "get"
    /\ IF queue = <<>>
       THEN /\ wpc' = [wpc EXCEPT ![w] = "check"]
            /\ UNCHANGED <<queue, wreq>>
       ELSE /\ queue' = Tail(queue)
            /\ IF Head(queue) = None
               THEN /\ wpc' = [wpc EXCEPT ![w] = "dead"]
                    /\ UNCHANGED wreq
               ELSE /\ wpc' = [wpc EXCEPT ![w] = "set_current"]
                    /\ wreq' = [wreq EXCEPT ![w] = Head(queue)]
    /\ UNCHANGED <<extVars, response, h_repeat, ledgerVars, current_request, running, worker_thread, wfed, plVars,
                   cliVars, device, obsVars>>

\* _play_request: with self._lock: self._current_request = request
WSetCurrent(w) ==
    /\ wpc[w] = "set_current"
    /\ current_request' = wreq[w]
    /\ wpc' = [wpc EXCEPT ![w] = "mark_playing"]
    /\ UNCHANGED <<extVars, response, h_repeat, ledgerVars, queue, running, worker_thread, wreq, wfed, plVars,
                   cliVars, device, obsVars>>

\* _play_request: self._history.mark_playing(request.message_id)
WMarkPlaying(w) ==
    /\ wpc[w] = "mark_playing"
    /\ messages' = mark_playing(messages, wreq[w])
    /\ playOrder' = IF h_stopped THEN playOrder ELSE Append(playOrder, wreq[w])
    /\ wpc' = [wpc EXCEPT ![w] = "start"]
    /\ UNCHANGED <<extVars, response, h_repeat, sqlite_seq, colVars, qmVars, wreq, wfed, plVars, cliVars, device,
                   enqueued, h_stopped, h_ids, obsSets, obsCall, h_c5>>

\* _play_request: self._player.start(sample_rate), one `with self._lock:`
\* block.  With a session open it calls self.stop(), which takes the same
\* non-reentrant lock: the thread waits for itself, holding the lock.
WStart(w) ==
    /\ wpc[w] = "start"
    /\ p_lock = None
    /\ IF p_playing
       THEN /\ p_lock' = w
            /\ wpc' = [wpc EXCEPT ![w] = "deadlock"]
            /\ UNCHANGED <<p_playing, p_interrupted, p_stream, p_queue, p_thread,
                           wfed, device>>
       ELSE /\ p_queue' = <<>>
            /\ p_interrupted' = FALSE
            /\ p_playing' = TRUE
            /\ p_stream' = TRUE
            /\ p_thread' = "alive"
            /\ wfed' = [wfed EXCEPT ![w] = 0]
            /\ wpc' = [wpc EXCEPT ![w] = "feed"]
            /\ device' = <<>>
            /\ UNCHANGED p_lock
    /\ UNCHANGED <<extVars, response, h_repeat, ledgerVars, qmVars, wreq, orphans, cliVars, obsVars>>

\* synthesize_streaming calls feed(samples) for the next chunk:
\* if self._interrupted: return False (the engine stops generating); else
\* self._queue.put(samples); with self._lock: self._total_samples += ...;
\* return not self._interrupted
WFeed(w) ==
    /\ wpc[w] = "feed"
    /\ IF p_interrupted
       THEN /\ wpc' = [wpc EXCEPT ![w] = "finish_put"]
            /\ UNCHANGED <<p_queue, wfed>>
       ELSE /\ p_lock = None
            /\ p_queue' = Append(p_queue, <<wreq[w], wfed[w] + 1>>)
            /\ wfed' = [wfed EXCEPT ![w] = wfed[w] + 1]
            /\ wpc' = [wpc EXCEPT ![w] =
                         IF wfed[w] + 1 < ChunksPerRequest THEN "feed" ELSE "finish_put"]
    /\ UNCHANGED <<extVars, response, h_repeat, ledgerVars, qmVars, wreq, p_playing, p_interrupted, p_stream,
                   p_thread, p_lock, orphans, cliVars, device, obsVars>>

\* finish: self._queue.put(None)
WFinishPut(w) ==
    /\ wpc[w] = "finish_put"
    /\ p_queue' = Append(p_queue, NoneChunk)
    /\ wpc' = [wpc EXCEPT ![w] = "finish_join"]
    /\ UNCHANGED <<extVars, response, h_repeat, ledgerVars, qmVars, wreq, wfed, p_playing, p_interrupted, p_stream,
                   p_thread, p_lock, orphans, cliVars, device, obsVars>>

\* finish: self._playback_thread.join() (no timeout), then
\* with self._lock: duration_ms = ...; self._cleanup()
WFinish(w) ==
    /\ wpc[w] = "finish_join"
    /\ p_thread # "alive"
    /\ p_lock = None
    /\ p_stream' = FALSE
    /\ p_playing' = FALSE
    /\ p_thread' = "none"
    /\ wpc' = [wpc EXCEPT ![w] = "mark_played"]
    /\ device' = <<>>
    /\ UNCHANGED <<extVars, response, h_repeat, ledgerVars, qmVars, wreq, wfed, p_interrupted, p_queue, p_lock,
                   orphans, cliVars, obsVars>>

\* _play_request: with self._lock: if the slot still holds this request:
\* mark_played, self._current_request = None
WMarkPlayed(w) ==
    /\ wpc[w] = "mark_played"
    /\ IF StillCurrent(current_request, wreq[w])
       THEN /\ messages' = mark_played(messages, wreq[w])
            /\ played_at' = SetColumn(played_at, messages, wreq[w])
            /\ duration_ms' = SetColumn(duration_ms, messages, wreq[w])
            /\ current_request' = None
       ELSE UNCHANGED <<messages, colVars, current_request>>
    /\ wreq' = [wreq EXCEPT ![w] = None]
    /\ wfed' = [wfed EXCEPT ![w] = 0]
    /\ wpc' = [wpc EXCEPT ![w] = "check"]
    /\ h_cur' = IF h_cur = wreq[w] THEN None ELSE h_cur
    /\ UNCHANGED <<extVars, response, h_repeat, sqlite_seq, queue, running, worker_thread, plVars, cliVars,
                   device, obsOrder, h_ids, markedSkipped, obsCall, h_c5>>

\* ------------------------------------------------- the playback thread
\* _playback_loop, one turn of the thread self._playback_thread names:
\* samples = self._queue.get(); None: break; interrupted: break;
\* else self._stream.write(samples) if the stream is there
Playback ==
    /\ p_thread = "alive"
    /\ p_queue # <<>>
    /\ p_queue' = Tail(p_queue)
    /\ IF Head(p_queue) = NoneChunk \/ p_interrupted
       THEN /\ p_thread' = "dead"
            /\ UNCHANGED device
       ELSE /\ device' = IF p_stream THEN Append(device, Head(p_queue)) ELSE device
            /\ UNCHANGED p_thread
    /\ UNCHANGED <<extVars, response, h_repeat, ledgerVars, qmVars, wkVars, p_playing, p_interrupted, p_stream,
                   p_lock, orphans, cliVars, obsVars>>

\* _playback_loop, one turn of a thread stop() stopped waiting for: it reads
\* self._queue, self._interrupted and self._stream like the other.
OrphanPlayback ==
    /\ orphans > 0
    /\ p_queue # <<>>
    /\ p_queue' = Tail(p_queue)
    /\ IF Head(p_queue) = NoneChunk \/ p_interrupted
       THEN /\ orphans' = orphans - 1
            /\ UNCHANGED device
       ELSE /\ device' = IF p_stream THEN Append(device, Head(p_queue)) ELSE device
            /\ UNCHANGED orphans
    /\ UNCHANGED <<extVars, response, h_repeat, ledgerVars, qmVars, wkVars, p_playing, p_interrupted, p_stream,
                   p_thread, p_lock, cliVars, obsVars>>

\* ------------------------------------------------- the system
Worker(w) ==
    \/ WCheck(w) \/ WGet(w) \/ WSetCurrent(w) \/ WMarkPlaying(w) \/ WStart(w)
    \/ WFeed(w) \/ WFinishPut(w) \/ WFinish(w) \/ WMarkPlayed(w)

Next ==
    \/ Start \/ StopFlag \/ StopPut \/ StopJoin
    \/ SpeakAdd \/ SpeakEnqueue
    \/ SacInterrupt \/ SacPlayerDrain \/ SacPlayerCleanup \/ SacCurrent
    \/ SacDrain \/ SacReturn
    \/ \E w \in WorkerIds : Worker(w)
    \/ Playback \/ OrphanPlayback

Spec == Init /\ [][Next]_vars

\* ------------------------------------------------- start() and stop() alone
\* The lifecycle with nothing submitted: the consumer threads only poll.
Poll(w) == WCheck(w) \/ WGet(w)

LifecycleNext ==
    \/ Start \/ StopFlag \/ StopPut \/ StopJoin
    \/ \E w \in WorkerIds : Poll(w)

\* A thread that can take a step is scheduled sooner or later.
SpecLifecycle ==
    Init /\ [][LifecycleNext]_vars /\ \A w \in WorkerIds : WF_vars(Poll(w))

\* ------------------------------------------------- a manager never stopped
\* start(), then submissions and stop_and_clear calls against the consumer:
\* QueueManager.stop() is not called.
RunNext ==
    \/ Start
    \/ SpeakAdd \/ SpeakEnqueue
    \/ SacInterrupt \/ SacPlayerDrain \/ SacPlayerCleanup \/ SacCurrent
    \/ SacDrain \/ SacReturn
    \/ \E w \in WorkerIds : Worker(w)
    \/ Playback \/ OrphanPlayback

\* A call of the HTTP handler that has begun goes on to its return.
HandlerStep ==
    \/ SpeakEnqueue
    \/ SacPlayerDrain \/ SacPlayerCleanup \/ SacCurrent
    \/ SacDrain \/ SacReturn

\* Every thread that can take a step is scheduled sooner or later: the
\* consumer, the playback threads, and the handler inside a call.
SpecRun ==
    /\ Init /\ [][RunNext]_vars
    /\ \A w \in WorkerIds : WF_vars(Worker(w))
    /\ WF_vars(Playback)
    /\ WF_vars(OrphanPlayback)
    /\ WF_vars(HandlerStep)

\* ------------------------------------------------- the service
\* str.lstrip(), str.rstrip(), str.strip()
RECURSIVE LStrip(_)
LStrip(t) == IF t # <<>> /\ Head(t) = " " THEN LStrip(Tail(t)) ELSE t

RECURSIVE RStrip(_)
RStrip(t) == IF t # <<>> /\ t[Len(t)] = " " THEN RStrip(SubSeq(t, 1, Len(t) - 1)) ELSE t

Strip(t) == RStrip(LStrip(t))

\* _post_speak, the lines of service.py that matter below
AddMessageLine == 118
EnqueueLine == 129

\* float() applied where the SpeakRequest is built (line 126), after
\* add_message, instead of at line 114.
StopsAtLate(b) ==
    CASE b.json = "invalid" -> 105
      [] b.json = "array" -> 107
      [] Strip(b.text) = <<>> -> 110
      [] b.speed = "x" -> 126
      [] OTHER -> 0

\* The line at which _post_speak stops short for a body, 0 if it runs to its
\* end: json.loads raises JSONDecodeError, caught, 400 sent, return at 105;
\* data.get raises AttributeError at 107 when data is no object; `if not
\* text` sends 400 and returns at 110; float() raises ValueError at 114.
StopsAt(b) ==
    CASE b.json = "invalid" -> 105
      [] b.json = "array" -> 107
      [] Strip(b.text) = <<>> -> 110
      [] b.speed = "x" -> 114
      [] OTHER -> 0

\* The bodies _post_speak answers with self._send_json({"error": ...}, 400).
Replies400(b) == StopsAt(b) \in {105, 110}

\* float(data.get("speed", 1.0))
SpeedOf(b) == IF b.speed = "0" THEN 0 ELSE 1

\* _post_speak reached `line` for this body
Reaches(b, line) == StopsAt(b) = 0 \/ StopsAt(b) > line

\* do_POST, _post_speak lines 98-99: a POST /api/speak arrives and is read
PostRead ==
    /\ cpc = "idle"
    /\ sqlite_seq < MaxMsgs
    /\ Len(queue) < MaxQueue
    /\ \E b \in Bodies : body' = b
    /\ response' = "none"
    /\ cpc' = "speak_parse"
    /\ UNCHANGED <<ledgerVars, qmVars, wkVars, plVars, request, cleared, device, obsVars,
                   h_repeat, speed, sndVars, qryVars, lnVars,
                   clVars, cmpVars, audVars>>

\* _post_speak lines 101-118: parse, validate, convert, then
\* history.add_message, which either inserts the row or raises a
\* sqlite3.Error and inserts nothing.  An exception leaves the handler with
\* no response sent.
PostSpeak ==
    /\ cpc = "speak_parse"
    /\ \E stored \in BOOLEAN :
        IF Reaches(body, AddMessageLine) /\ stored
        THEN LET id == NextRowId(messages, sqlite_seq) IN
                /\ messages' = InsertQueued(messages, id)
                /\ sqlite_seq' = id
                /\ UNCHANGED colVars
                /\ h_ids' = Append(h_ids, id)
                /\ speed' = [speed EXCEPT ![id] = SpeedOf(body)]
                /\ IF Reaches(body, EnqueueLine)
                   THEN request' = id /\ cpc' = "speak_enqueue"
                   ELSE request' = None /\ cpc' = "idle"
                /\ UNCHANGED response
        ELSE /\ response' = IF Replies400(body) THEN "400" ELSE "none"
             /\ cpc' = "idle"
             /\ UNCHANGED <<ledgerVars, request, h_ids, speed>>
    /\ body' = NoBody
    /\ UNCHANGED <<qmVars, wkVars, plVars, cleared, device, obsOrder, obsSets, obsCall,
                   h_c5, h_repeat, sndVars, qryVars, lnVars,
                   clVars, cmpVars, audVars>>

\* _play_request line 135: self._tone_mapper.get_params(request.tone,
\* speed=request.speed) computes base.length_scale / speed.  With speed 0 this
\* raises ZeroDivisionError; nothing catches it in _play_request or in
\* _process_queue, so the thread ends.
WGetParams(w) ==
    /\ wpc[w] = "start"
    /\ speed[wreq[w]] = 0
    /\ wpc' = [wpc EXCEPT ![w] = "dead"]
    /\ UNCHANGED <<ledgerVars, qmVars, wreq, wfed, plVars, cliVars, device, obsVars,
                   h_repeat, response, extVars>>

\* _play_request line 138, reached when get_params has returned
WStartAfterParams(w) ==
    /\ wpc[w] = "start"
    /\ speed[wreq[w]] # 0
    /\ WStart(w)

ServiceWorker(w) ==
    \/ WCheck(w) \/ WGet(w) \/ WSetCurrent(w) \/ WMarkPlaying(w)
    \/ WGetParams(w) \/ WStartAfterParams(w)
    \/ WFeed(w) \/ WFinishPut(w) \/ WFinish(w) \/ WMarkPlayed(w)

\* run_service while it serves POST /api/speak
ServiceNext ==
    \/ Start
    \/ PostRead \/ PostSpeak \/ SpeakEnqueue
    \/ \E w \in WorkerIds : ServiceWorker(w)
    \/ Playback

SpecService == Init /\ [][ServiceNext]_vars

\* ------------------------------------------------- the player on its own
\* StreamingPlayer called directly: one thread calls start, feed and finish in
\* any order (in the service, the consumer thread), another calls stop (in the
\* service, the HTTP handler); the playback threads and the device monitor
\* run beside them.  A chunk is <<its number in the session, its length>>.
Rates == {DefaultSampleRate, 2 * DefaultSampleRate}

\* what the player leaves alone
restVars == <<ledgerVars, qmVars, wkVars, request, cleared, obsVars, h_repeat, response,
              svcVars, qryVars, lnVars, clVars, cmpVars, audVars>>

\* start() that leaves the count of the previous session in place.
TotalKept(t) == t

\* start: self._total_samples = 0
TotalAtStart(t) == 0

\* feed that goes on whatever the flag says.
NeverRefuses(i) == FALSE

\* feed: `if self._interrupted: return False`
Refuses(i) == i

\* finish: (self._total_samples / self._sample_rate) * 1000, as the exact
\* fraction <<numerator, denominator>>
Duration(total, rate) == <<total * 1000, rate>>

\* _cleanup that leaves _playing as it is.
StillPlaying(flag) == flag

\* _cleanup: self._playing = False
AfterCleanup(flag) == FALSE

\* StreamingPlayer.start(sample_rate), one `with self._lock:` block.  With
\* _playing set it calls self.stop(), whose `with self._lock:` waits for the
\* lock this thread holds.  Else: new queue, flags, counters, the device
\* monitor (created and started by the first get_device_monitor()), the
\* output stream and the playback thread.
PStart ==
    /\ kpc = "idle"
    /\ p_lock = None
    /\ IF p_playing
       THEN /\ p_lock' = 1
            /\ kpc' = "deadlock"
            /\ UNCHANGED <<p_playing, p_interrupted, p_stream, p_queue, p_thread, p_total,
                           p_rate, m_running, device, h_fed, h_clean, h_disc, h_fail>>
       ELSE /\ \E r \in Rates : p_rate' = r
            /\ p_queue' = <<>>
            /\ p_interrupted' = FALSE
            /\ p_total' = TotalAtStart(p_total)
            /\ p_playing' = TRUE
            /\ m_running' = TRUE
            /\ p_stream' = TRUE
            /\ p_thread' = "alive"
            /\ device' = <<>>
            /\ h_fed' = <<>>
            /\ h_clean' = (cpc = "idle")
            /\ h_disc' = {}
            /\ h_fail' = FALSE
            /\ UNCHANGED <<p_lock, kpc>>
    /\ UNCHANGED <<restVars, orphans, cpc, p_hand, o_hand, k_size, k_ret, k_ms, sd_epoch>>

\* feed(samples) is called with a chunk of some length
PFeedCall ==
    /\ kpc = "idle"
    /\ Len(h_fed) < MaxFeeds
    /\ Len(p_queue) < MaxBacklog
    /\ \E n \in 0..MaxChunk : k_size' = n
    /\ kpc' = "feed"
    /\ UNCHANGED <<restVars, h_disc, h_fail, plVars, cpc, device, p_total, p_rate, p_hand, o_hand, k_ret,
                   k_ms, m_running, sd_epoch, h_fed, h_clean>>

\* feed: if self._interrupted: return False
PFeedCheck ==
    /\ kpc = "feed"
    /\ IF Refuses(p_interrupted)
       THEN k_ret' = "false" /\ kpc' = "idle"
       ELSE kpc' = "feed_put" /\ UNCHANGED k_ret
    /\ UNCHANGED <<restVars, h_disc, h_fail, plVars, cpc, device, p_total, p_rate, p_hand, o_hand, k_size,
                   k_ms, m_running, sd_epoch, h_fed, h_clean>>

\* feed: if len(samples) > 0: self._queue.put(samples); with self._lock:
\* self._total_samples += len(samples).  Then return not self._interrupted.
PFeedPut ==
    /\ kpc = "feed_put"
    /\ IF k_size > 0
       THEN LET chunk == <<Len(h_fed) + 1, k_size>> IN
                /\ p_lock = None
                /\ p_queue' = Append(p_queue, chunk)
                /\ p_total' = p_total + k_size
                /\ h_fed' = Append(h_fed, chunk)
       ELSE UNCHANGED <<p_queue, p_total, h_fed>>
    /\ k_ret' = IF p_interrupted THEN "false" ELSE "true"
    /\ kpc' = "idle"
    /\ UNCHANGED <<restVars, h_disc, h_fail, p_playing, p_interrupted, p_stream, p_thread, p_lock, orphans,
                   cpc, device, p_rate, p_hand, o_hand, k_size, k_ms, m_running, sd_epoch,
                   h_clean>>

\* finish: self._queue.put(None)
PFinishPut ==
    /\ kpc = "idle"
    /\ Len(p_queue) < MaxBacklog
    /\ p_queue' = Append(p_queue, NoneChunk)
    /\ kpc' = "finish_join"
    /\ UNCHANGED <<restVars, h_disc, h_fail, p_playing, p_interrupted, p_stream, p_thread, p_lock, orphans,
                   cpc, device, p_total, p_rate, p_hand, o_hand, k_size, k_ret, k_ms,
                   m_running, sd_epoch, h_fed, h_clean>>

\* finish: self._playback_thread.join() when there is a thread, then
\* with self._lock: duration_ms = ...; self._cleanup(); return duration_ms.
\* _cleanup stops and closes the stream, which ends the writes in progress.
PFinish ==
    /\ kpc = "finish_join"
    /\ p_thread # "alive"
    /\ p_lock = None
    /\ k_ms' = Duration(p_total, p_rate)
    /\ p_stream' = FALSE
    /\ p_playing' = AfterCleanup(p_playing)
    /\ p_thread' = "none"
    /\ o_hand' = {}
    /\ device' = <<>>
    /\ h_clean' = FALSE
    /\ kpc' = "idle"
    /\ UNCHANGED <<restVars, h_disc, h_fail, p_interrupted, p_queue, p_lock, orphans, cpc, p_total, p_rate,
                   p_hand, k_size, k_ret, m_running, sd_epoch, h_fed>>

\* stop: with self._lock: self._interrupted = True
PStopFlag ==
    /\ cpc = "idle"
    /\ p_lock = None
    /\ p_interrupted' = TRUE
    /\ h_clean' = FALSE
    /\ cpc' = "pstop_drain"
    /\ UNCHANGED <<restVars, h_disc, h_fail, p_playing, p_stream, p_queue, p_thread, p_lock, orphans,
                   device, p_total, p_rate, p_hand, o_hand, kpc, k_size, k_ret, k_ms,
                   m_running, sd_epoch, h_fed>>

\* stop: get_nowait until Empty, then self._queue.put(None)
PStopDrain ==
    /\ cpc = "pstop_drain"
    /\ p_queue' = <<NoneChunk>>
    /\ h_disc' = {p_queue[i] : i \in 1..Len(p_queue)} \ {NoneChunk}
    /\ cpc' = "pstop_cleanup"
    /\ UNCHANGED <<restVars, h_fail, p_playing, p_interrupted, p_stream, p_thread, p_lock, orphans,
                   device, p_total, p_rate, p_hand, o_hand, kpc, k_size, k_ret, k_ms,
                   m_running, sd_epoch, h_fed, h_clean>>

\* stop: self._playback_thread.join(timeout=0.5), then with self._lock:
\* self._cleanup().  A thread that has exited is joined.  A thread still
\* alive after 0.5 s is left behind: one waiting in get() lives on; one
\* inside stream.write either gets PortAudioError from the closed stream and
\* exits, or has its write return and lives on.
PStopCleanup ==
    /\ cpc = "pstop_cleanup"
    /\ p_lock = None
    /\ IF p_thread = "alive"
       THEN \E lives \in BOOLEAN :
                /\ p_hand = NoneChunk => lives
                /\ IF lives
                   THEN orphans < MaxOrphans /\ orphans' = orphans + 1
                   ELSE UNCHANGED orphans
       ELSE UNCHANGED orphans
    /\ p_stream' = FALSE
    /\ p_playing' = AfterCleanup(p_playing)
    /\ p_thread' = "none"
    /\ p_hand' = NoneChunk
    /\ o_hand' = {}
    /\ device' = <<>>
    /\ cpc' = "idle"
    /\ UNCHANGED <<restVars, h_disc, h_fail, p_interrupted, p_queue, p_lock, p_total, p_rate, kpc, k_size,
                   k_ret, k_ms, m_running, sd_epoch, h_fed, h_clean>>

\* _playback_loop of the thread self._playback_thread names:
\* samples = self._queue.get(); None: break; self._interrupted: break;
\* else, with a stream, enter self._stream.write(samples)
PbGet ==
    /\ p_thread = "alive"
    /\ p_hand = NoneChunk
    /\ p_queue # <<>>
    /\ p_queue' = Tail(p_queue)
    /\ IF Head(p_queue) = NoneChunk \/ p_interrupted
       THEN p_thread' = "dead" /\ UNCHANGED p_hand
       ELSE /\ p_hand' = IF p_stream THEN Head(p_queue) ELSE NoneChunk
            /\ UNCHANGED p_thread
    /\ UNCHANGED <<restVars, h_disc, h_fail, p_playing, p_interrupted, p_stream, p_lock, orphans, cpc,
                   device, p_total, p_rate, o_hand, kpc, k_size, k_ret, k_ms, m_running,
                   sd_epoch, h_fed, h_clean>>

\* _playback_loop: self._stream.write(samples) returns, the chunk is out
PbWrite ==
    /\ p_thread = "alive"
    /\ p_hand # NoneChunk
    /\ device' = Append(device, p_hand)
    /\ p_hand' = NoneChunk
    /\ UNCHANGED <<restVars, h_disc, h_fail, plVars, cpc, p_total, p_rate, o_hand, kpc, k_size, k_ret,
                   k_ms, m_running, sd_epoch, h_fed, h_clean>>

\* _playback_loop: self._stream.write(samples) raises sd.PortAudioError:
\* break.  The chunk is not played and the thread exits.
PbFail ==
    /\ p_thread = "alive"
    /\ p_hand # NoneChunk
    /\ p_thread' = "dead"
    /\ p_hand' = NoneChunk
    /\ h_fail' = TRUE
    /\ h_clean' = FALSE
    /\ UNCHANGED <<restVars, h_disc, p_playing, p_interrupted, p_stream, p_queue, p_lock,
                   orphans, cpc, device, p_total, p_rate, o_hand, kpc, k_size, k_ret,
                   k_ms, m_running, sd_epoch, h_fed>>

\* _playback_loop of a thread stop() left behind: it reads self._queue,
\* self._interrupted and self._stream, whatever session they belong to now.
OrphGet ==
    /\ Cardinality(o_hand) < orphans
    /\ p_queue # <<>>
    /\ p_queue' = Tail(p_queue)
    /\ IF Head(p_queue) = NoneChunk \/ p_interrupted
       THEN orphans' = orphans - 1 /\ UNCHANGED o_hand
       ELSE /\ o_hand' = IF p_stream THEN o_hand \cup {Head(p_queue)} ELSE o_hand
            /\ UNCHANGED orphans
    /\ UNCHANGED <<restVars, h_disc, h_fail, p_playing, p_interrupted, p_stream, p_thread, p_lock, cpc,
                   device, p_total, p_rate, p_hand, kpc, k_size, k_ret, k_ms, m_running,
                   sd_epoch, h_fed, h_clean>>

\* the write of such a thread returns
OrphWrite ==
    /\ \E c \in o_hand :
        /\ device' = Append(device, c)
        /\ o_hand' = o_hand \ {c}
    /\ UNCHANGED <<restVars, h_disc, h_fail, plVars, cpc, p_total, p_rate, p_hand, kpc, k_size, k_ret,
                   k_ms, m_running, sd_epoch, h_fed, h_clean>>

\* AudioDeviceMonitor._monitor_loop: every check_interval seconds,
\* _check_for_changes(): sd._terminate(); sd._initialize(); query the devices
MonitorCheck ==
    /\ m_running
    /\ sd_epoch' = 1 - sd_epoch
    /\ UNCHANGED <<restVars, h_disc, h_fail, plVars, cpc, device, p_total, p_rate, p_hand, o_hand, kpc,
                   k_size, k_ret, k_ms, m_running, h_fed, h_clean>>

PlayerNext ==
    \/ PStart \/ PFeedCall \/ PFeedCheck \/ PFeedPut \/ PFinishPut \/ PFinish
    \/ PStopFlag \/ PStopDrain \/ PStopCleanup
    \/ PbGet \/ PbWrite \/ PbFail \/ OrphGet \/ OrphWrite
    \/ MonitorCheck

SpecPlayer == Init /\ [][PlayerNext]_vars

\* ------------------------------------------------- the ledger on its own
\* HistoryStore called directly: every public mutator, with any argument.
LAdd ==
    /\ sqlite_seq < MaxRows
    /\ LET id == NextRowId(messages, sqlite_seq) IN
        /\ messages' = InsertQueued(messages, id)
        /\ sqlite_seq' = IF id > sqlite_seq THEN id ELSE sqlite_seq
        /\ UNCHANGED colVars
        /\ h_ids' = Append(h_ids, id)
    /\ UNCHANGED <<extVars, response, h_repeat, qmVars, wkVars, plVars, cliVars, device, obsOrder, obsSets, obsCall,
                   h_c5>>

LMarkPlaying ==
    /\ \E id \in 1..MaxRows : messages' = mark_playing(messages, id)
    /\ UNCHANGED <<extVars, response, h_repeat, sqlite_seq, colVars, qmVars, wkVars, plVars, cliVars, device, obsVars>>

LMarkPlayed ==
    /\ \E id \in 1..MaxRows :
        /\ messages' = mark_played(messages, id)
        /\ played_at' = SetColumn(played_at, messages, id)
        /\ duration_ms' = SetColumn(duration_ms, messages, id)
    /\ UNCHANGED <<extVars, response, h_repeat, sqlite_seq, qmVars, wkVars, plVars, cliVars, device, obsVars>>

LMarkSkipped ==
    /\ \E id \in 1..MaxRows : messages' = mark_skipped(messages, id)
    /\ UNCHANGED <<extVars, response, h_repeat, sqlite_seq, colVars, qmVars, wkVars, plVars, cliVars, device, obsVars>>

LMarkQueuedAsSkipped ==
    /\ messages' = mark_queued_as_skipped(messages)
    /\ UNCHANGED <<extVars, response, h_repeat, sqlite_seq, colVars, qmVars, wkVars, plVars, cliVars, device, obsVars>>

LCleanup ==
    /\ \E k \in 1..(MaxRows + 1) : messages' = cleanup_old(messages, k)
    /\ played_at' = played_at \cap DOMAIN messages'
    /\ duration_ms' = duration_ms \cap DOMAIN messages'
    /\ UNCHANGED <<extVars, response, h_repeat, sqlite_seq, qmVars, wkVars, plVars, cliVars, device, obsVars>>

LedgerNext ==
    \/ LAdd \/ LMarkPlaying \/ LMarkPlayed \/ LMarkSkipped \/ LMarkQueuedAsSkipped
    \/ LCleanup

SpecLedger == Init /\ [][LedgerNext]_vars

\* ------------------------------------------------- the ledger and its readers
\* HistoryStore with its timestamps: created_at is CURRENT_TIMESTAMP, whole
\* seconds, so rows inserted within one second carry equal values.
Min(a, b) == IF a < b THEN a ELSE b

\* Every row, whatever its status.
AllRows(m) == DOMAIN m

\* get_queued: WHERE status = 'queued'
QueuedRows(m) == {i \in DOMAIN m : m[i] = "queued"}

\* ORDER BY created_at ASC through a sorter fed in rowid order: equal
\* created_at come out in rowid order.
RECURSIVE OldestFirst(_, _)
OldestFirst(S, cr) ==
    IF S = {} THEN <<>>
    ELSE LET x == CHOOSE x \in S :
                    \A y \in S : cr[x] < cr[y] \/ (cr[x] = cr[y] /\ x <= y)
         IN <<x>> \o OldestFirst(S \ {x}, cr)

\* ORDER BY created_at DESC read off idx_messages_created (created_at DESC,
\* then rowid): equal created_at come out in rowid order, lowest first.
RECURSIVE NewestFirst(_, _)
NewestFirst(S, cr) ==
    IF S = {} THEN <<>>
    ELSE LET x == CHOOSE x \in S :
                    \A y \in S : cr[x] > cr[y] \/ (cr[x] = cr[y] /\ x <= y)
         IN <<x>> \o NewestFirst(S \ {x}, cr)

get_queued(m, cr) == OldestFirst(QueuedRows(m), cr)

\* get_playing: WHERE status = 'playing' LIMIT 1, read off idx_messages_status
get_playing(m) ==
    LET P == {i \in DOMAIN m : m[i] = "playing"} IN
        IF P = {} THEN None ELSE CHOOSE x \in P : \A y \in P : x <= y

\* get_recent: ORDER BY created_at DESC LIMIT ?
get_recent(m, cr, n) ==
    LET all == NewestFirst(DOMAIN m, cr) IN SubSeq(all, 1, Min(n, Len(all)))

\* DELETE FROM messages WHERE created_at < cutoff
DeleteOlder(f, cr, cutoff) == [i \in {j \in DOMAIN f : cr[j] >= cutoff} |-> f[i]]

\* a second passes
QTick ==
    /\ now < MaxClock
    /\ now' = now + 1
    /\ UNCHANGED <<ledgerVars, qmVars, wkVars, plVars, cliVars, device, obsVars, h_repeat,
                   response, svcVars, sndVars, lnVars, clVars, cmpVars, audVars, created_at, qpc, queued_from_db, playing,
                   queue_size, limit, recent>>

\* add_message
QAdd ==
    /\ sqlite_seq < MaxRows
    /\ LET id == NextRowId(messages, sqlite_seq) IN
        /\ messages' = InsertQueued(messages, id)
        /\ created_at' = [i \in DOMAIN messages \cup {id} |->
                              IF i = id THEN now ELSE created_at[i]]
        /\ sqlite_seq' = IF id > sqlite_seq THEN id ELSE sqlite_seq
        /\ UNCHANGED colVars
        /\ h_ids' = Append(h_ids, id)
    /\ UNCHANGED <<qmVars, wkVars, plVars, cliVars, device, obsOrder, obsSets, obsCall,
                   h_c5, h_repeat, response, svcVars, sndVars, lnVars, clVars, cmpVars, audVars, now, qpc, queued_from_db,
                   playing, queue_size, limit, recent>>

\* mark_playing, mark_played, mark_skipped, mark_queued_as_skipped
QMark ==
    /\ \/ \E id \in 1..MaxRows :
            \/ messages' = mark_playing(messages, id) /\ UNCHANGED colVars
            \/ /\ messages' = mark_played(messages, id)
               /\ played_at' = SetColumn(played_at, messages, id)
               /\ duration_ms' = SetColumn(duration_ms, messages, id)
            \/ messages' = mark_skipped(messages, id) /\ UNCHANGED colVars
       \/ messages' = mark_queued_as_skipped(messages) /\ UNCHANGED colVars
    /\ UNCHANGED <<sqlite_seq, qmVars, wkVars, plVars, cliVars, device, obsVars, h_repeat,
                   response, svcVars, sndVars, lnVars, clVars, cmpVars, audVars, qryVars>>

\* cleanup_old
QCleanup ==
    /\ \E cutoff \in 1..MaxClock :
        /\ cutoff <= now
        /\ messages' = DeleteOlder(messages, created_at, cutoff)
        /\ created_at' = DeleteOlder(created_at, created_at, cutoff)
    /\ played_at' = played_at \cap DOMAIN messages'
    /\ duration_ms' = duration_ms \cap DOMAIN messages'
    /\ UNCHANGED <<sqlite_seq, qmVars, wkVars, plVars, cliVars, device, obsVars, h_repeat,
                   response, svcVars, sndVars, lnVars, clVars, cmpVars, audVars, now, qpc, queued_from_db, playing,
                   queue_size, limit, recent>>

\* QueueManager.get_status: queued_from_db = self._history.get_queued().
\* What earlier calls returned is gone.
QStatusQueued ==
    /\ qpc = "idle"
    /\ queued_from_db' = get_queued(messages, created_at)
    /\ qpc' = "status_playing"
    /\ playing' = None
    /\ queue_size' = 0
    /\ limit' = 0
    /\ recent' = <<>>
    /\ UNCHANGED <<ledgerVars, qmVars, wkVars, plVars, cliVars, device, obsVars, h_repeat,
                   response, svcVars, sndVars, lnVars, clVars, cmpVars, audVars, created_at, now>>

\* get_status: playing = self._history.get_playing(); return the dict with
\* queue_size = len(queued_from_db)
QStatusPlaying ==
    /\ qpc = "status_playing"
    /\ playing' = get_playing(messages)
    /\ queue_size' = Len(queued_from_db)
    /\ qpc' = "idle"
    /\ UNCHANGED <<ledgerVars, qmVars, wkVars, plVars, cliVars, device, obsVars, h_repeat,
                   response, svcVars, sndVars, lnVars, clVars, cmpVars, audVars, created_at, now, queued_from_db, limit,
                   recent>>

\* get_recent(limit).  What earlier calls returned is gone.
QRecent ==
    /\ qpc = "idle"
    /\ \E n \in 0..MaxRows :
        /\ limit' = n
        /\ recent' = get_recent(messages, created_at, n)
    /\ queued_from_db' = <<>>
    /\ playing' = None
    /\ queue_size' = 0
    /\ UNCHANGED <<ledgerVars, qmVars, wkVars, plVars, cliVars, device, obsVars, h_repeat,
                   response, svcVars, sndVars, lnVars, clVars, cmpVars, audVars, created_at, now, qpc>>

QueryNext ==
    \/ QTick \/ QAdd \/ QMark \/ QCleanup
    \/ QStatusQueued \/ QStatusPlaying \/ QRecent

SpecQuery == Init /\ [][QueryNext]_vars

\* ------------------------------------------------- launching the service
\* run_service in several processes at once, as `speakup service` run twice
\* or as _start_service of two MCP servers that both found no service.
otherVars == <<ledgerVars, qmVars, wkVars, plVars, cliVars, device, obsVars, h_repeat,
               response, svcVars, sndVars, qryVars, clVars, cmpVars, audVars>>

\* the process is running
Alive(q) == q \in Procs /\ lpc[q] \in {"init", "worker", "pid", "serving"}

\* get_service_pid: the pid in PID_FILE if os.kill(pid, 0) finds the
\* process, else None (no file, no such process)
get_service_pid(f) == IF f # 0 /\ Alive(f) THEN f ELSE 0

\* run_service: existing_pid = get_service_pid(); if existing_pid: sys.exit(1)
LCheck(p) ==
    /\ lpc[p] = "off"
    /\ lpc' = [lpc EXCEPT ![p] = IF get_service_pid(pid_file) # 0 THEN "refused" ELSE "init"]
    /\ UNCHANGED <<otherVars, pid_file, port, qm_on, h_started, h_wrote>>

\* run_service: the components are built, then queue_manager.start()
LStartQueue(p) ==
    /\ lpc[p] = "init"
    /\ qm_on' = qm_on \cup {p}
    /\ h_started' = h_started \cup {p}
    /\ lpc' = [lpc EXCEPT ![p] = "worker"]
    /\ UNCHANGED <<otherVars, pid_file, port, h_wrote>>

\* run_service: write_pid_file()
LWritePid(p) ==
    /\ lpc[p] = "worker"
    /\ pid_file' = p
    /\ h_wrote' = h_wrote \cup {p}
    /\ lpc' = [lpc EXCEPT ![p] = "pid"]
    /\ UNCHANGED <<otherVars, port, qm_on, h_started>>

\* run_service: server = HTTPServer(("127.0.0.1", port), ...) binds the port.
\* With the port taken it raises OSError, outside the try/finally: the
\* process ends with its daemon worker, and nothing removes the file.
LBind(p) ==
    /\ lpc[p] = "pid"
    /\ IF port = 0
       THEN /\ port' = p
            /\ lpc' = [lpc EXCEPT ![p] = "serving"]
            /\ UNCHANGED qm_on
       ELSE /\ lpc' = [lpc EXCEPT ![p] = "crashed"]
            /\ qm_on' = qm_on \ {p}
            /\ UNCHANGED port
    /\ UNCHANGED <<otherVars, pid_file, h_started, h_wrote>>

\* SIGINT or SIGTERM while serving: shutdown() stops the queue manager,
\* remove_pid_file() unlinks PID_FILE, sys.exit(0) closes the socket
LShutdown(p) ==
    /\ lpc[p] = "serving"
    /\ qm_on' = qm_on \ {p}
    /\ pid_file' = 0
    /\ port' = 0
    /\ lpc' = [lpc EXCEPT ![p] = "gone"]
    /\ UNCHANGED <<otherVars, h_started, h_wrote>>

\* the process is killed (SIGKILL, power loss): no handler runs
LKill(p) ==
    /\ Alive(p)
    /\ qm_on' = qm_on \ {p}
    /\ port' = IF port = p THEN 0 ELSE port
    /\ lpc' = [lpc EXCEPT ![p] = "gone"]
    /\ UNCHANGED <<otherVars, pid_file, h_started, h_wrote>>

LaunchNext ==
    \E p \in Procs :
        \/ LCheck(p) \/ LStartQueue(p) \/ LWritePid(p) \/ LBind(p)
        \/ LShutdown(p) \/ LKill(p)

SpecLaunch == Init /\ [][LaunchNext]_vars

\* ------------------------------------------------- the clients
\* The MCP tools speak and stop of server.py and the commands status,
\* history and stop of cli.py, each a sequence of HTTP requests to the
\* service, which can come up and go away between any two of them.
nonClientVars == <<ledgerVars, qmVars, wkVars, plVars, cliVars, device, obsVars, h_repeat,
                   response, svcVars, sndVars, qryVars, lnVars, cmpVars, audVars>>

CliCommands == {"cli_status", "cli_history", "cli_stop"}

\* server.stop: if not _is_service_running(): return {"success": True}
StopWithoutService == "success"

\* the service starts answering (it was launched, by the client's Popen or
\* by hand), or stops answering
SvcUp ==
    /\ ~svc_up
    /\ svc_up' = TRUE
    /\ UNCHANGED <<nonClientVars, x_ms, xpc, x_op, x_text, x_interrupt, x_out, h_tried, h_reached>>

SvcDown ==
    /\ svc_up
    /\ svc_up' = FALSE
    /\ UNCHANGED <<nonClientVars, x_ms, xpc, x_op, x_text, x_interrupt, x_out, h_tried, h_reached>>

\* text that is the empty string
NoText(t) == t = <<>>

\* speak: if not text.strip()
EmptyText(t) == Strip(t) = <<>>

\* server.speak(text, interrupt=...): text that is empty after strip is
\* answered {"success": True, "duration_ms": 0} with no request sent
XSpeakCall ==
    /\ xpc = "idle"
    /\ \E t \in Texts, i \in BOOLEAN :
        /\ x_text' = t
        /\ x_interrupt' = i
        /\ IF EmptyText(t)
           THEN xpc' = "idle" /\ x_out' = "success" /\ x_ms' = {0}
           ELSE xpc' = "sp_probe" /\ x_out' = "none" /\ x_ms' = {}
    /\ x_op' = "speak"
    /\ h_tried' = FALSE
    /\ h_reached' = FALSE
    /\ UNCHANGED <<nonClientVars, svc_up>>

\* speak: _ensure_service(): the health probe; without an answer,
\* _start_service() launches the service and goes polling
XSpeakProbe ==
    /\ xpc = "sp_probe"
    /\ h_tried' = TRUE
    /\ h_reached' = svc_up
    /\ xpc' = IF ~svc_up THEN "sp_wait" ELSE IF x_interrupt THEN "sp_stop" ELSE "sp_speak"
    /\ UNCHANGED <<nonClientVars, x_ms, svc_up, x_op, x_text, x_interrupt, x_out>>

\* _start_service: up to 40 probes, 0.25 s apart; True at the first answer,
\* False after the last; speak returns success False on False
XSpeakWait ==
    /\ xpc = "sp_wait"
    /\ IF svc_up
       THEN /\ h_reached' = TRUE
            /\ xpc' = IF x_interrupt THEN "sp_stop" ELSE "sp_speak"
            /\ UNCHANGED x_out
       ELSE /\ x_out' = "failure"
            /\ xpc' = "idle"
            /\ UNCHANGED h_reached
    /\ UNCHANGED <<nonClientVars, x_ms, svc_up, x_op, x_text, x_interrupt, h_tried>>

\* speak: if interrupt: _api_call("/api/stop", method="POST"), result unused
XSpeakStop ==
    /\ xpc = "sp_stop"
    /\ h_reached' = (h_reached \/ svc_up)
    /\ xpc' = "sp_speak"
    /\ UNCHANGED <<nonClientVars, x_ms, svc_up, x_op, x_text, x_interrupt, x_out, h_tried>>

\* speak: result = _api_call("/api/speak", ...); "error" in result: success
\* False.  A service that answers can answer with an error status, which
\* urlopen raises and _api_call turns into {"error": ...}.
XSpeakSend ==
    /\ xpc = "sp_speak"
    /\ h_reached' = (h_reached \/ svc_up)
    /\ \E accepted \in BOOLEAN :
        x_out' = IF svc_up /\ accepted THEN "success" ELSE "failure"
    /\ xpc' = "idle"
    /\ UNCHANGED <<nonClientVars, x_ms, svc_up, x_op, x_text, x_interrupt, h_tried>>

\* server.stop() is called
XStopCall ==
    /\ xpc = "idle"
    /\ x_op' = "stop"
    /\ x_text' = <<>>
    /\ x_interrupt' = FALSE
    /\ x_out' = "none"
    /\ h_tried' = FALSE
    /\ h_reached' = FALSE
    /\ xpc' = "st_probe"
    /\ x_ms' = {}
    /\ UNCHANGED <<nonClientVars, svc_up>>

\* stop: if not _is_service_running(): return {"success": True}
XStopProbe ==
    /\ xpc = "st_probe"
    /\ h_tried' = TRUE
    /\ h_reached' = svc_up
    /\ IF svc_up
       THEN xpc' = "st_stop" /\ UNCHANGED x_out
       ELSE xpc' = "idle" /\ x_out' = StopWithoutService
    /\ UNCHANGED <<nonClientVars, x_ms, svc_up, x_op, x_text, x_interrupt>>

\* stop: result = _api_call("/api/stop", method="POST")
XStopSend ==
    /\ xpc = "st_stop"
    /\ h_reached' = (h_reached \/ svc_up)
    /\ x_out' = IF svc_up THEN "success" ELSE "failure"
    /\ xpc' = "idle"
    /\ UNCHANGED <<nonClientVars, x_ms, svc_up, x_op, x_text, x_interrupt, h_tried>>

\* cli: cmd_status, cmd_history or cmd_stop is run
XCliCall ==
    /\ xpc = "idle"
    /\ \E c \in CliCommands : x_op' = c
    /\ x_text' = <<>>
    /\ x_interrupt' = FALSE
    /\ x_out' = "none"
    /\ h_tried' = FALSE
    /\ h_reached' = FALSE
    /\ xpc' = "cli_probe"
    /\ x_ms' = {}
    /\ UNCHANGED <<nonClientVars, svc_up>>

\* cmd_*: if not is_service_running(): print("Service is not running.");
\* return 1
XCliProbe ==
    /\ xpc = "cli_probe"
    /\ h_tried' = TRUE
    /\ h_reached' = svc_up
    /\ IF svc_up
       THEN xpc' = "cli_call" /\ UNCHANGED x_out
       ELSE xpc' = "idle" /\ x_out' = "failure"
    /\ UNCHANGED <<nonClientVars, x_ms, svc_up, x_op, x_text, x_interrupt>>

\* cmd_*: result = api_call(...); "error" in result: print, return 1; an
\* exception other than URLError leaves through main with a traceback
XCliSend ==
    /\ xpc = "cli_call"
    /\ h_reached' = (h_reached \/ svc_up)
    /\ x_out' = IF svc_up THEN "success" ELSE "failure"
    /\ xpc' = "idle"
    /\ UNCHANGED <<nonClientVars, x_ms, svc_up, x_op, x_text, x_interrupt, h_tried>>

ClientNext ==
    \/ SvcUp \/ SvcDown
    \/ XSpeakCall \/ XSpeakProbe \/ XSpeakWait \/ XSpeakStop \/ XSpeakSend
    \/ XStopCall \/ XStopProbe \/ XStopSend
    \/ XCliCall \/ XCliProbe \/ XCliSend

SpecClient == Init /\ [][ClientNext]_vars

\* ------------------------------------------------- composing a request
\* What _play_request computes from a SpeakRequest before any sound is made.
\* A string is the sequence of its pieces; numbers are in thousandths, a
\* quotient is <<numerator, denominator>>.
nonComposeVars == <<ledgerVars, qmVars, wkVars, plVars, cliVars, device, obsVars, h_repeat,
                    response, svcVars, sndVars, qryVars, lnVars, clVars, audVars>>

Projects == {<<>>, <<"p">>}

Announces == {"none", "full", "prefix", "loud"}

Tones == {"neutral", "excited", "concerned", "calm", "urgent", "unknown", ""}

\* speed: 0, 0.5, 1.0, 2.0
SpeedValues == {<<0, 1>>, <<1, 2>>, <<1, 1>>, <<2, 1>>}

SpeakRequests ==
    [project : Projects, text : Texts, announce : Announces, tone : Tones,
     speed : SpeedValues]

\* The announcement left out for the style 'none' only.
UnprefixedByStyle(r) == r.announce = "none"

\* _build_text: if request.announce == "none" or not request.project
Unprefixed(r) == r.announce = "none" \/ r.project = <<>>

_build_text(r) ==
    IF Unprefixed(r) THEN r.text
    ELSE IF r.announce = "full"
         THEN <<"This is Claude from ">> \o r.project \o <<": ">> \o r.text
         ELSE r.project \o <<": ">> \o r.text

TONE_PRESETS ==
    [neutral   |-> [noise_scale |-> 667, noise_scale_w |-> 800, length_scale |-> 1000],
     excited   |-> [noise_scale |-> 800, noise_scale_w |-> 900, length_scale |-> 900],
     concerned |-> [noise_scale |-> 500, noise_scale_w |-> 600, length_scale |-> 1100],
     calm      |-> [noise_scale |-> 400, noise_scale_w |-> 500, length_scale |-> 1150],
     urgent    |-> [noise_scale |-> 700, noise_scale_w |-> 850, length_scale |-> 850]]

\* An unknown tone taken for 'calm'.
PresetOrCalm(tone) ==
    IF tone \in DOMAIN TONE_PRESETS THEN TONE_PRESETS[tone] ELSE TONE_PRESETS["calm"]

\* get_params: _TONE_PRESETS.get(tone, _TONE_PRESETS["neutral"])
Preset(tone) ==
    IF tone \in DOMAIN TONE_PRESETS THEN TONE_PRESETS[tone] ELSE TONE_PRESETS["neutral"]

\* base.length_scale / speed raised ZeroDivisionError
ZeroDivision == [noise_scale |-> 0, noise_scale_w |-> 0, length_scale |-> <<1, 0>>]

\* The length scale multiplied by the speed.
TimesSpeed(a, v) == <<a * v[1], v[2]>>

\* get_params: adjusted_length = base.length_scale / speed
OverSpeed(a, v) == <<a * v[2], v[1]>>

\* ToneMapper.get_params(tone, speed)
get_params(tone, v) ==
    LET base == Preset(tone) IN
        IF v[1] = 0 THEN ZeroDivision
        ELSE [noise_scale   |-> base.noise_scale,
              noise_scale_w |-> base.noise_scale_w,
              length_scale  |-> OverSpeed(base.length_scale, v)]

\* _play_request is entered with a request
CRequest ==
    /\ mpc \in {"idle", "done"}
    /\ \E r \in SpeakRequests : rq' = r
    /\ full_text' = <<>>
    /\ params' = NoParams
    /\ mpc' = "text"
    /\ UNCHANGED nonComposeVars

\* _play_request: full_text = self._build_text(request)
CBuildText ==
    /\ mpc = "text"
    /\ full_text' = _build_text(rq)
    /\ mpc' = "params"
    /\ UNCHANGED <<nonComposeVars, rq, params>>

\* _play_request: params = self._tone_mapper.get_params(request.tone,
\* speed=request.speed)
CGetParams ==
    /\ mpc = "params"
    /\ params' = get_params(rq.tone, rq.speed)
    /\ mpc' = "done"
    /\ UNCHANGED <<nonComposeVars, rq, full_text>>

ComposeNext == CRequest \/ CBuildText \/ CGetParams

SpecCompose == Init /\ [][ComposeNext]_vars

\* ------------------------------------------------- AudioPlayer
\* AudioPlayer.play called from several threads, stop() from any thread.
nonAudioVars == <<ledgerVars, qmVars, wkVars, plVars, cliVars, device, obsVars, h_repeat,
                  response, svcVars, sndVars, qryVars, lnVars, clVars, cmpVars>>

Callers == 1..MaxCallers

\* play(samples, sample_rate, interrupt=...) with samples that are not
\* empty is called
APlayCall(t) ==
    /\ apc[t] = "idle"
    /\ \E i \in BOOLEAN :
        /\ a_interrupt' = [a_interrupt EXCEPT ![t] = i]
        /\ h_plain' = (h_plain \/ ~i \/ \E u \in Callers : apc[u] \notin {"idle", "waiting"})
    /\ apc' = [apc EXCEPT ![t] = "test"]
    /\ UNCHANGED <<nonAudioVars, a_playing, a_process, a_running, a_count, a_wait>>

\* play: if interrupt and self._playing: (self.stop())
APlayTest(t) ==
    /\ apc[t] = "test"
    /\ apc' = [apc EXCEPT ![t] = IF a_interrupt[t] /\ a_playing THEN "stop" ELSE "mark"]
    /\ UNCHANGED <<nonAudioVars, a_playing, a_process, a_running, a_count, a_interrupt, a_wait, h_plain>>

\* stop(): with self._lock: if self._process is not None:
\* self._process.terminate(); self._process = None
Terminated(r, proc) == r \ {proc}

\* play: self.stop()
APlayStop(t) ==
    /\ apc[t] = "stop"
    /\ a_running' = Terminated(a_running, a_process)
    /\ a_process' = 0
    /\ apc' = [apc EXCEPT ![t] = "mark"]
    /\ UNCHANGED <<nonAudioVars, a_playing, a_count, a_interrupt, a_wait, h_plain>>

\* play: the WAV file is written, then with self._lock: self._playing = True
APlayMark(t) ==
    /\ apc[t] = "mark"
    /\ a_playing' = TRUE
    /\ apc' = [apc EXCEPT ![t] = "popen"]
    /\ UNCHANGED <<nonAudioVars, a_process, a_running, a_count, a_interrupt, a_wait, h_plain>>

\* play: self._process = subprocess.Popen(["afplay", temp_path], ...)
APlayPopen(t) ==
    /\ apc[t] = "popen"
    /\ a_count < MaxAfplay
    /\ a_count' = a_count + 1
    /\ a_running' = a_running \cup {a_count + 1}
    /\ a_process' = a_count + 1
    /\ apc' = [apc EXCEPT ![t] = "wait"]
    /\ UNCHANGED <<nonAudioVars, a_playing, a_interrupt, a_wait, h_plain>>

\* play: self._process.wait(): the attribute is read again; None has no
\* wait, and the exception leaves through the finally block
APlayWait(t) ==
    /\ apc[t] = "wait"
    /\ IF a_process = 0
       THEN apc' = [apc EXCEPT ![t] = "finally"] /\ UNCHANGED a_wait
       ELSE /\ apc' = [apc EXCEPT ![t] = "waiting"]
            /\ a_wait' = [a_wait EXCEPT ![t] = a_process]
    /\ UNCHANGED <<nonAudioVars, a_playing, a_process, a_running, a_count, a_interrupt, h_plain>>

\* play: wait() returns, the process has exited
APlayWaited(t) ==
    /\ apc[t] = "waiting"
    /\ a_wait[t] \notin a_running
    /\ apc' = [apc EXCEPT ![t] = "finally"]
    /\ a_wait' = [a_wait EXCEPT ![t] = 0]
    /\ UNCHANGED <<nonAudioVars, a_playing, a_process, a_running, a_count, a_interrupt, h_plain>>

\* play: finally: with self._lock: self._playing = False;
\* self._process = None; then the return (or the exception)
APlayFinally(t) ==
    /\ apc[t] = "finally"
    /\ a_playing' = FALSE
    /\ a_process' = 0
    /\ apc' = [apc EXCEPT ![t] = "idle"]
    /\ UNCHANGED <<nonAudioVars, a_running, a_count, a_interrupt, a_wait, h_plain>>

\* AudioPlayer.stop() called from outside play
AStop ==
    /\ a_process # 0
    /\ a_running' = Terminated(a_running, a_process)
    /\ a_process' = 0
    /\ UNCHANGED <<nonAudioVars, a_playing, a_count, apc, a_interrupt, a_wait, h_plain>>

\* afplay has played the file to its end
AfplayExit ==
    /\ \E proc \in a_running : a_running' = a_running \ {proc}
    /\ UNCHANGED <<nonAudioVars, a_playing, a_process, a_count, apc, a_interrupt, a_wait, h_plain>>

APlay(t) ==
    \/ APlayCall(t) \/ APlayTest(t) \/ APlayStop(t) \/ APlayMark(t) \/ APlayPopen(t)
    \/ APlayWait(t) \/ APlayWaited(t) \/ APlayFinally(t)

AudioNext ==
    \/ \E t \in Callers : APlay(t)
    \/ AStop
    \/ AfplayExit

SpecAudio == Init /\ [][AudioNext]_vars

\* ------------------------------------------------- properties
\* Only one consumer thread was ever started.
SingleConsumer == \A w \in WorkerIds : w > 1 => wpc[w] = "unborn"

Playing == {id \in DOMAIN messages : messages[id] = "playing"}

\* The position of a stop_and_clear whose drain loop has found the FIFO
\* empty: what it returns is `cleared`.
Returning == cpc = "sac_drain" /\ queue = <<>>

\* C1: in every reachable state, with one consumer thread, submit and
\* stop_and_clear interleaved in any way, at most one ledger entry has status
\* 'playing'.
C1_AtMostOnePlaying == SingleConsumer => Cardinality(Playing) <= 1

\* C2: a request marked 'skipped' by stop_and_clear is never marked 'played'
\* afterwards, and a request marked 'played' never changes status again.
C2_OneTerminalStatus ==
    [][\A id \in DOMAIN messages :
          /\ id \in markedSkipped /\ messages[id] # "played" => messages'[id] # "played"
          /\ messages[id] = "played" => messages'[id] = "played"]_vars

\* C2: stop_and_clear has marked the request skipped and cleared the slot while
\* the consumer was playing it, and the consumer has reached its final block.
C2_Witness ==
    \E w \in WorkerIds :
        /\ wpc[w] = "mark_played"
        /\ wreq[w] \in markedSkipped
        /\ messages[wreq[w]] = "skipped"
        /\ current_request = None

AllowedTransitions ==
    {<<"queued", "playing">>, <<"playing", "played">>,
     <<"queued", "skipped">>, <<"playing", "skipped">>}

\* C3: every status change of a ledger entry is queued -> playing,
\* playing -> played, queued -> skipped or playing -> skipped (one consumer
\* thread, any interleaving with stop_and_clear).
C3_MonotonicStatus ==
    [][SingleConsumer =>
         \A id \in DOMAIN messages :
            messages'[id] # messages[id] =>
                <<messages[id], messages'[id]>> \in AllowedTransitions]_vars

\* C4: while no stop() and no stop_and_clear() has been called, the requests
\* are marked 'playing' in the order they were enqueued, which is the
\* increasing order of their message_id.
C4_FifoOrder ==
    ~h_stopped => IsPrefix(playOrder, enqueued) /\ StrictlyIncreasing(enqueued)

\* C4: two requests were submitted and both were marked playing, no stop.
C4_Witness == ~h_stopped /\ Len(playOrder) = 2 /\ Len(enqueued) = 2

\* C5: one request is submitted to a running worker and stop_and_clear is
\* called before it is marked 'played': the request is never 'played', the
\* call returns 1, and once the consumer is done the status is 'skipped'.
C5_StopBeforeFinish ==
    /\ h_c5 \in {"armed", "one", "other"} => messages[1] # "played"
    /\ h_c5 # "other"
    /\ h_c5 = "one" /\ Quiet /\ cpc = "idle" => messages[1] = "skipped"

\* C6: a request that sits in the FIFO when stop_and_clear is called is never
\* marked 'playing' and none of its chunks is fed or rendered, and when the
\* call returns it is 'skipped' (one consumer thread).
C6_QueuedAreCancelled ==
    SingleConsumer =>
        \A id \in h_cancelled :
            /\ messages[id] \in {"queued", "skipped"}
            /\ \A c \in Range(p_queue) \cup Range(device) : c[1] # id
            /\ Returning => messages[id] = "skipped"

\* C7: once stop_and_clear has marked the current request 'skipped' and has
\* returned, no chunk of that request is accepted by feed or written to the
\* device (one consumer thread).
C7_InterruptedIsSilent ==
    [][SingleConsumer /\ h_cur # None /\ cpc # "sac_drain" =>
         /\ \A c \in Range(p_queue') \ Range(p_queue) : c[1] # h_cur
         /\ \A c \in Range(device') \ Range(device) : c[1] # h_cur]_vars

\* C8: the count stop_and_clear holds, and returns, is the number of ledger
\* rows this call changed to 'skipped'; a drained sentinel adds nothing.
C8_ClearedCountsSkipped == cleared = h_trans

\* C8: a call that interrupted the current request and drained another one
\* is about to return 2.
C8_Witness == Returning /\ h_cur # None /\ cleared = 2

C10_IdsIncrease == StrictlyIncreasing(h_ids)

\* C10: an id was assigned after cleanup_old had emptied the table.
C10_Witness ==
    /\ Len(h_ids) >= 2
    /\ DOMAIN messages = {h_ids[Len(h_ids)]}

\* C11: a stop() called on a manager that is already stopped changes neither
\* the consumer threads nor the FIFO.
C11_RepeatedStopNoEffect ==
    [][h_repeat /\ cpc = "stop_put" /\ cpc' = "stop_join" =>
         queue' = queue /\ wpc' = wpc]_vars

\* C11, the other half: once stop() has cleared _running, a consumer thread
\* that waits on the FIFO with nothing submitted terminates, unless start() is
\* called again first.
C11_StopUnblocksConsumer ==
    \A w \in WorkerIds :
        (~running /\ wpc[w] \in {"check", "get"}) ~> (wpc[w] = "dead" \/ running)

\* C12: an error raised while the consumer processes a request does not end
\* the consumer thread: while the manager runs, no started consumer is dead.
C12_WorkerSurvivesErrors ==
    running => \A w \in WorkerIds : wpc[w] # "dead"

\* The bodies whose text is empty after trimming, and the malformed ones.
Rejected(b) == b.json \in {"invalid", "array"} \/ Strip(b.text) = <<>>

\* C13: a submission whose text is empty after trimming, or whose body is
\* malformed, is answered 400, creates no ledger entry and enqueues nothing.
C13_InvalidIsRejected ==
    [][cpc = "speak_parse" /\ cpc' # "speak_parse" /\ Rejected(body) =>
         /\ response' = "400"
         /\ messages' = messages
         /\ queue' = queue
         /\ cpc' = "idle"]_vars

\* A request some consumer thread has taken from the FIFO.
Taken(id) == \E w \in WorkerIds : wreq[w] = id

\* C14: when no submission is in progress, every ledger entry was enqueued
\* (it is in the FIFO, or a consumer took it, or it was played) and every
\* request in the FIFO has its ledger entry.
C14_EntryIffEnqueued ==
    cpc = "idle" =>
        /\ \A id \in DOMAIN messages :
              id \in Requests(queue) \/ Taken(id) \/ messages[id] = "played"
        /\ Requests(queue) \subseteq DOMAIN messages

\* C14: a submission has ended in an error, with no response sent, after
\* one that succeeded and whose request still sits in the FIFO.
C14_Witness ==
    /\ cpc = "idle"
    /\ response = "none"
    /\ DOMAIN messages = {1}
    /\ 1 \in Requests(queue)

\* C15: the device monitor never reinitializes the device registry while a
\* session is open and its playback thread may be writing; refreshes happen
\* only outside active renders.
C15_NoRefreshDuringRender ==
    [][sd_epoch' # sd_epoch => ~(p_stream /\ p_thread = "alive")]_vars

\* C16: start() on an active session interrupts it, opens the new stream and
\* returns: the call is never left waiting forever (here, for the lock its
\* own thread holds).
C16_RestartReturns == kpc # "deadlock"

\* C17: while interruption is requested, every feed that returns returns
\* false, and a feed that finds the interruption at its check returns at once,
\* with the queue and the sample count as they were.
C17_FeedRefusedAfterStop ==
    [][/\ (p_interrupted /\ kpc \in {"feed", "feed_put"} /\ kpc' = "idle"
              => k_ret' = "false")
       /\ (p_interrupted /\ kpc = "feed" /\ kpc' # kpc
              => kpc' = "idle" /\ p_queue' = p_queue /\ p_total' = p_total)]_vars

\* a feed of a non-empty chunk was refused after stop(), in a session that
\* had queued a chunk before
C17_Witness ==
    /\ p_interrupted
    /\ kpc = "idle"
    /\ k_ret = "false"
    /\ k_size > 0
    /\ Len(h_fed) = 1
    /\ p_total = h_fed[1][2]

\* C18: in a session nobody interrupted, what has been written to the device
\* is the chunks fed, in the order fed, each once: at every moment a prefix of
\* the fed sequence.
C18_WrittenInFedOrder == h_clean => IsPrefix(device, h_fed)

RECURSIVE SumSizes(_)
SumSizes(chunks) ==
    IF chunks = <<>> THEN 0 ELSE chunks[1][2] + SumSizes(Tail(chunks))

\* C19: finish() returns (sum of the lengths fed since the last start) * 1000
\* / sample rate of that start.
C19_FinishReturnsDuration ==
    [][kpc = "finish_join" /\ kpc' = "idle"
          => k_ms' = <<SumSizes(h_fed) * 1000, p_rate>>]_vars

\* finish() has returned the duration of two chunks fed at a sample rate
\* other than the default one
C19_Witness ==
    /\ kpc = "idle"
    /\ ~p_playing
    /\ Len(h_fed) = 2
    /\ k_ms = <<SumSizes(h_fed) * 1000, p_rate>>
    /\ p_rate # DefaultSampleRate

\* C20: when finish() returns in a session nobody interrupted, every chunk
\* fed has been written to the device, the stream is released and
\* is_playing() is false.
C20_FinishAfterAllWritten ==
    [][kpc = "finish_join" /\ kpc' = "idle" /\ h_clean
          => device = h_fed /\ ~p_stream' /\ ~p_playing']_vars

C22_FailureShortensDuration ==
    [][kpc = "finish_join" /\ kpc' = "idle" /\ h_fail
          => k_ms'[1] < SumSizes(h_fed) * 1000 /\ k_ms'[2] = p_rate]_vars

\* C23: at most one playback thread is alive, in every reachable state.
C23_OnePlaybackThread == (IF p_thread = "alive" THEN 1 ELSE 0) + orphans <= 1

C25_RecentNewestFirst ==
    [][qpc = "idle" /\ qpc' = "idle" /\ (recent' # recent \/ limit' # limit)
          => /\ Len(recent') = Min(limit', Cardinality(DOMAIN messages))
             /\ Range(recent') \subseteq DOMAIN messages
             /\ \A i, j \in DOMAIN recent' : i < j => recent'[i] > recent'[j]
             /\ \A x \in Range(recent'), y \in DOMAIN messages \ Range(recent') :
                    y < x]_vars

\* C26: a process that does not get the port has started no queue worker and
\* has not written the process-identity marker; and the port has one owner.
C26_LoserDoesNoWork ==
    /\ \A p \in Procs :
          lpc[p] \in {"refused", "crashed"} => p \notin h_started /\ p \notin h_wrote
    /\ Cardinality({p \in Procs : lpc[p] = "serving"}) <= 1

\* C27: while a process is bound to the port and serving, the marker holds
\* its pid; a clean shutdown removes the marker; a launch is refused only
\* because of a marker whose process exists.
C27_MarkerNamesTheServer ==
    [][/\ (port' # 0 => pid_file' = port')
       /\ \A p \in Procs :
            /\ (lpc[p] = "serving" /\ lpc'[p] = "gone" /\ port' = 0 /\ pid_file' # pid_file
                    => pid_file' = 0)
            /\ (lpc[p] = "off" /\ lpc'[p] = "refused" => Alive(pid_file))]_vars

\* C28: an operation that sent requests to the service and got no answer to
\* any of them reports failure, never success.
C28_UnreachableIsFailure ==
    [][xpc # "idle" /\ xpc' = "idle" /\ h_tried' /\ ~h_reached' => x_out' = "failure"]_vars

\* C29: the spoken text is the raw text when announce is 'none' or the
\* project is empty; 'This is Claude from {project}: {text}' when announce is
\* 'full'; '{project}: {text}' for 'prefix' and every other value.
C29_SpokenText ==
    mpc \in {"params", "done"} =>
        full_text =
            CASE rq.announce = "none" \/ rq.project = <<>> -> rq.text
              [] rq.announce = "full" /\ rq.project # <<>> ->
                    <<"This is Claude from ">> \o rq.project \o <<": ">> \o rq.text
              [] OTHER -> rq.project \o <<": ">> \o rq.text

\* the text of a request with announce 'full', composed
C29_Witness ==
    /\ mpc = "done"
    /\ rq.announce = "full"
    /\ full_text = <<"This is Claude from ", "p", ": ", "a", "a">>

\* C30: for a tone that is none of the five presets, and any speed,
\* get_params gives what it gives for 'neutral' at that speed, in all three
\* parameters.
C30_UnknownToneIsNeutral ==
    mpc = "done" /\ rq.tone \notin {"neutral", "excited", "concerned", "calm", "urgent"}
        => /\ params.noise_scale = get_params("neutral", rq.speed).noise_scale
           /\ params.noise_scale_w = get_params("neutral", rq.speed).noise_scale_w
           /\ params.length_scale = get_params("neutral", rq.speed).length_scale

\* the parameters of an unknown tone at double speed, computed
C30_Witness ==
    /\ mpc = "done"
    /\ rq.tone = "unknown"
    /\ rq.speed = <<2, 1>>
    /\ params = [noise_scale |-> 667, noise_scale_w |-> 800, length_scale |-> <<1000, 2>>]

\* C31: for a preset tone and a positive speed s, the length scale returned
\* is the preset's length scale divided by s, and the two noise parameters
\* are the preset's, whatever s is.
C31_LengthOverSpeed ==
    mpc = "done" /\ rq.tone \in DOMAIN TONE_PRESETS /\ rq.speed[1] > 0
        => /\ params.length_scale[1] * rq.speed[1]
                = TONE_PRESETS[rq.tone].length_scale * rq.speed[2] * params.length_scale[2]
           /\ params.noise_scale = TONE_PRESETS[rq.tone].noise_scale
           /\ params.noise_scale_w = TONE_PRESETS[rq.tone].noise_scale_w

\* the parameters of 'excited' at half speed, computed: the length scale is
\* twice the preset's
C31_Witness ==
    /\ mpc = "done"
    /\ rq.tone = "excited"
    /\ rq.speed = <<1, 2>>
    /\ params = [noise_scale |-> 800, noise_scale_w |-> 900, length_scale |-> <<1800, 1>>]

\* C33: speak() of the client with a text that is empty once trimmed has
\* returned success with duration_ms 0, and has neither probed, started nor
\* reached the service: no stop and no speak request was sent, so that no
\* ledger entry was created.
C33_EmptyTextTouchesNothing ==
    x_op = "speak" /\ Strip(x_text) = <<>>
        => /\ xpc = "idle"
           /\ x_out = "success"
           /\ x_ms = {0}
           /\ ~h_tried
           /\ ~h_reached

\* speak(" ") has returned while the service was down, and it stays down
C33_Witness ==
    /\ x_op = "speak"
    /\ x_text = <<" ">>
    /\ xpc = "idle"
    /\ x_out = "success"
    /\ ~svc_up

\* C32: in every reachable state a ledger entry has played_at and
\* duration_ms set if and only if its status is 'played'; an entry that is
\* queued, playing or skipped has neither.
C32_StampedIffPlayed ==
    \A id \in DOMAIN messages :
        IF messages[id] = "played"
        THEN id \in played_at /\ id \in duration_ms
        ELSE id \notin played_at /\ id \notin duration_ms

\* one entry played to its end and stamped, next to one that
\* stop_and_clear marked skipped
C32_Witness ==
    \E a, b \in DOMAIN messages :
        /\ messages[a] = "played" /\ a \in played_at /\ a \in duration_ms
        /\ messages[b] = "skipped" /\ b \in markedSkipped

\* submit has returned for the request: its row is in the ledger and the
\* request was put into the FIFO
Accepted(id) == id \in DOMAIN messages /\ ~(cpc = "speak_enqueue" /\ request = id)

\* the ledger status of the request is final
Settled(id) == id \in DOMAIN messages /\ messages[id] \in {"played", "skipped"}

\* C34: with the consumer running and every thread scheduled, a request
\* that submit accepted comes to the ledger status 'played' or 'skipped',
\* whatever the interleaving of submit, stop_and_clear and the consumer.
C34_AcceptedIsSettled ==
    \A id \in 1..MaxMsgs :
        (running /\ Accepted(id)) ~> Settled(id)

\* the consumer threads that are alive, in _process_queue or below it
Consumers == {w \in WorkerIds : wpc[w] \notin {"unborn", "dead"}}

\* C35: whatever the sequence of start() and stop() calls, at most one
\* consumer thread is alive and running the processing loop, a start()
\* after a stop() whose join timed out included.
C35_OneConsumer == Cardinality(Consumers) <= 1

\* C36: after stop() followed by start(), the consumer thread that start()
\* created stays alive while the manager is marked running: a sentinel that
\* an earlier stop() left in the FIFO does not end it.
C36_RestartedConsumerLives ==
    running /\ worker_thread # None => wpc[worker_thread] # "dead"

\* the FIFO is empty, no consumer holds a dequeued request, and neither a
\* submit nor a stop_and_clear (nor any other call) is in progress
Quiescent == queue = <<>> /\ cpc = "idle" /\ \A w \in WorkerIds : ~Busy(w)

\* C37: whenever the system is quiescent, no ledger entry is 'queued' or
\* 'playing' and the current-request slot is empty.
C37_QuiescentIsSettled ==
    Quiescent =>
        /\ \A id \in DOMAIN messages : messages[id] \notin {"queued", "playing"}
        /\ current_request = None

\* a stop_and_clear call is in progress
InStopAndClear ==
    cpc \in {"sac_player_drain", "sac_player_cleanup", "sac_current", "sac_drain"}

\* C38: whatever the interleaving of the consumer thread with stop_and_clear
\* calls, neither waits for ever: every stop_and_clear returns, and a
\* consumer inside _play_request comes to its end.
C38_NoDeadlock ==
    /\ InStopAndClear ~> cpc = "idle"
    /\ \A w \in WorkerIds : Busy(w) ~> ~Busy(w)

\* C39: when every play() was called with interrupt=True, alone or while
\* the afplay process of the previous call was running, at most one afplay
\* process runs at a time, and while one runs is_playing() is true and
\* _process is that process, so that stop() terminates it.
C39_OneAfplay ==
    ~h_plain =>
        /\ Cardinality(a_running) <= 1
        /\ a_running # {} => a_playing /\ a_process \in a_running

====
